---- MODULE Spec2Model ----
(***************************************************************************)
(* Model of the AMIN configuration loader (src/config.py) and market data  *)
(* collector (src/data_collector.py).                                      *)
(*                                                                         *)
(*  SpecConfig : os.environ -> Config() -> get_active_exchanges()          *)
(*  Spec       : MarketDataCollector(config), then fetch_ohlcv calls by a  *)
(*               single sequential caller                                  *)
(*  SpecConc   : the same collector with two threads calling fetch_ohlcv   *)
(***************************************************************************)
EXTENDS Integers, Sequences, FiniteSets, TLC

VARIABLES
    environ,         \* os.environ: a function from the variables that are set to their text
    cfgState,        \* "unbuilt" | "built" | "failed": outcome of Config()
    cfgError,        \* message of the ValueError that Config() raised, or "none"
    cfg,             \* the Config object's fields (environment, exchanges, project_id)
    warnings,        \* messages passed to logging.warning by _validate_config
    activeOut,       \* last value returned by get_active_exchanges(), or <<None>> before any call
    constructed,     \* MarketDataCollector.__init__ has returned
    initRaised,      \* an exception escaped MarketDataCollector.__init__
    initOutcome,     \* per exchange: "ok" | "failed" | "not_tried" during initialization
    exchanges,       \* self.exchanges: live client names, in dict insertion order
    last_fetch_time, \* self.last_fetch_time: name -> time, -1 when the key is absent
    now,             \* time.time(), in ticks
    pc,              \* per thread: position inside fetch_ohlcv
    arg,             \* per thread: the exchange_name argument of the running call
    todo,            \* per thread: the part of exchanges_to_use still to iterate
    current_time,    \* per thread: local current_time (line 89)
    wake,            \* per thread: time at which time.sleep returns
    seenLast,        \* per thread: last_fetch_time[name] read by the throttle check
    callStart,       \* per thread: start time of this iteration's underlying fetch, -1 if none
    callOutcome,     \* per thread: "none" | "pending" | "rows" | "empty" | "raise"
    netStart,        \* per exchange: start time of the latest underlying fetch, -1 if none
    netGap           \* per exchange: time between the starts of the latest two underlying
                     \* fetches, counted up to MinInterval; -1 with fewer than two

cfgVars == <<environ, cfgState, cfgError, cfg, warnings, activeOut>>
colVars == <<constructed, initRaised, initOutcome, exchanges>>
fetchVars == <<last_fetch_time, now, pc, arg, todo, current_time, wake, seenLast,
               callStart, callOutcome, netStart, netGap>>
vars == <<cfgVars, colVars, fetchVars>>

----------------------------------------------------------------------------
(* Bounds of the model *)

MaxTime == 3          \* the clock runs from 0 to MaxTime ticks
MinInterval == 2      \* 1.0 / exchange.rateLimit, in ticks

----------------------------------------------------------------------------
(* Python values *)

None == "<None>"
Truthy(s) == s # None /\ s # ""

\* The text of an environment variable is a sequence of symbols: the empty
\* text is <<>>, a numeric text is spelled out character by character, and a
\* text the code only tests for emptiness or compares as a whole is one symbol.
Text(word) == <<word>>
EmptyText == <<>>

RangeOf(s) == {s[i] : i \in 1..Len(s)}
NoDuplicates(s) == \A i, j \in 1..Len(s) : i # j => s[i] # s[j]

\* os.getenv(name, default)
getenv(env, name, default) == IF name \in DOMAIN env THEN env[name] ELSE default

----------------------------------------------------------------------------
(* src/config.py *)

TextVars == {"ENVIRONMENT", "BINANCE_API_KEY", "BINANCE_API_SECRET",
             "COINBASE_API_KEY", "COINBASE_API_SECRET", "FIREBASE_PROJECT_ID"}
IntVars == {"WINDOW_SIZE", "POLLING_INTERVAL", "PREDICTION_HORIZON", "RETRAIN_INTERVAL"}
FloatVars == {"CONFIDENCE_THRESHOLD"}
EnvVars == TextVars \cup IntVars \cup FloatVars

\* Texts a variable may hold when it is set
EnvValues(v) ==
    CASE v = "ENVIRONMENT" -> {Text("production"), Text("development")}
      [] v = "FIREBASE_PROJECT_ID" -> {EmptyText, Text("amin-prod")}
      [] v \in {"BINANCE_API_KEY", "BINANCE_API_SECRET"} -> {EmptyText, Text("k")}
      [] v \in {"COINBASE_API_KEY", "COINBASE_API_SECRET"} -> {Text("k")}
      [] v \in IntVars -> {<<"5">>, <<"x">>}
      [] v \in FloatVars -> {<<"5">>, <<".", "5">>, <<"x">>}

Digits == {"5"}
IsDigits(s) == Len(s) > 0 /\ \A i \in 1..Len(s) : s[i] \in Digits

\* int(text) returns (TRUE) or raises ValueError (FALSE)
IntParses(s) == IsDigits(s)

\* float(text) returns (TRUE) or raises ValueError (FALSE): digits with at most
\* one point and at least one digit
FloatParses(s) ==
    /\ Len(s) > 0
    /\ \A i \in 1..Len(s) : s[i] \in Digits \cup {"."}
    /\ Cardinality({i \in 1..Len(s) : s[i] = "."}) <= 1
    /\ \E i \in 1..Len(s) : s[i] \in Digits

\* lines 56-67: the numeric settings; the defaults "100", "60", "5", "0.7",
\* "3600" always parse
NumericSettingsParse(env) ==
    /\ \A v \in IntVars : v \in DOMAIN env => IntParses(env[v])
    /\ \A v \in FloatVars : v \in DOMAIN env => FloatParses(env[v])

ExchangeConfig(name, key, secret) ==
    [name |-> name, api_key |-> key, api_secret |-> secret]

\* lines 31-53: the fields Config.__init__ stores (dict insertion order kept)
ConfigFields(env) ==
    [environment |-> getenv(env, "ENVIRONMENT", Text("development")),
     exchanges |-> << ExchangeConfig("binance",
                                     getenv(env, "BINANCE_API_KEY", EmptyText),
                                     getenv(env, "BINANCE_API_SECRET", EmptyText)),
                      ExchangeConfig("coinbase",
                                     getenv(env, "COINBASE_API_KEY", EmptyText),
                                     getenv(env, "COINBASE_API_SECRET", EmptyText)) >>,
     project_id |-> getenv(env, "FIREBASE_PROJECT_ID", EmptyText)]

exchangeNamed(c, name) ==
    CHOOSE e \in RangeOf(c.exchanges) : e.name = name

\* line 74
BinanceKeyWarning(c) ==
    exchangeNamed(c, "binance").api_key = EmptyText /\ c.environment = Text("production")

\* line 77 with the check never fatal
FirebaseMissingNever(c) == FALSE

\* line 77 with the Binance key check of line 74 made fatal as well
FirebaseOrBinanceKeyMissing(c) ==
    /\ c.environment = Text("production")
    /\ (c.project_id = EmptyText \/ exchangeNamed(c, "binance").api_key = EmptyText)

\* line 77
FirebaseMissing(c) ==
    c.project_id = EmptyText /\ c.environment = Text("production")

\* line 85 with `or` in place of `and`
HasCredentialsEither(e) == e.api_key # EmptyText \/ e.api_secret # EmptyText

\* line 85
HasCredentials(e) == e.api_key # EmptyText /\ e.api_secret # EmptyText

\* lines 83-87
RECURSIVE ActiveFrom(_, _)
ActiveFrom(exs, active) ==
    IF exs = <<>> THEN active
    ELSE ActiveFrom(Tail(exs),
                    IF HasCredentials(Head(exs))
                    THEN Append(active, Head(exs).name)
                    ELSE active)

get_active_exchanges(c) == ActiveFrom(c.exchanges, <<>>)

NoConfig == [environment |-> EmptyText, exchanges |-> <<>>, project_id |-> EmptyText]

\* Config(): lines 30-79
ConfigInit ==
    /\ cfgState = "unbuilt"
    /\ IF ~NumericSettingsParse(environ)
       THEN /\ cfgState' = "failed"
            /\ cfgError' = "invalid literal"
            /\ cfg' = NoConfig
            /\ warnings' = warnings
       ELSE LET c == ConfigFields(environ) IN
            /\ warnings' = IF BinanceKeyWarning(c)
                           THEN Append(warnings, "Binance API key not configured")
                           ELSE warnings
            /\ IF FirebaseMissing(c)
               THEN /\ cfgState' = "failed"
                    /\ cfgError' = "Firebase configuration missing"
                    /\ cfg' = NoConfig
               ELSE /\ cfgState' = "built"
                    /\ cfgError' = "none"
                    /\ cfg' = c
    /\ UNCHANGED <<environ, activeOut, colVars, fetchVars>>

\* config.get_active_exchanges() called on a constructed Config
GetActiveExchanges ==
    /\ cfgState = "built"
    /\ activeOut' = get_active_exchanges(cfg)
    /\ UNCHANGED <<environ, cfgState, cfgError, cfg, warnings, colVars, fetchVars>>

----------------------------------------------------------------------------
(* src/data_collector.py: construction *)

\* line 27: exchange_classes
exchange_classes == {"binance", "coinbase"}

\* What the ccxt client of one exchange does during initialization:
\*   "ok"            constructor and load_markets() return
\*   "ctor_error"    the constructor (line 38) raises
\*   "auth_error"    load_markets() (line 50) raises ccxt.AuthenticationError
\*   "network_error" load_markets() raises ccxt.NetworkError
\*   "other_error"   load_markets() raises another Exception
InitOutcomes == {"ok", "ctor_error", "auth_error", "network_error", "other_error"}

\* lines 53-58: the except clauses; `except Exception` takes whatever the first
\* two do not
Handled(outcome) ==
    \/ outcome = "auth_error"
    \/ outcome = "network_error"
    \/ outcome \in {"ctor_error", "other_error"}

\* line 38: self.exchanges[name] = exchange_class({...}) stores the client as
\* soon as the constructor returns, before load_markets() is tried on line 50
ClientStored(outcome) == outcome # "ctor_error"

\* lines 32-58: the loop of _initialize_exchanges over the active names.
\* Returns [live |-> self.exchanges keys, raised |-> an exception escaped].
RECURSIVE InitializeFrom(_, _, _)
InitializeFrom(names, outcome, live) ==
    IF names = <<>> THEN [live |-> live, raised |-> FALSE]
    ELSE LET name == Head(names) IN
         IF name \notin exchange_classes
         THEN InitializeFrom(Tail(names), outcome, live)
         ELSE LET live2 == IF ClientStored(outcome[name])
                           THEN Append(live, name) ELSE live
              IN IF outcome[name] = "ok" \/ Handled(outcome[name])
                 THEN InitializeFrom(Tail(names), outcome, live2)
                 ELSE [live |-> live2, raised |-> TRUE]

_initialize_exchanges(c, outcome) ==
    InitializeFrom(get_active_exchanges(c), outcome, <<>>)

Threads == {1, 2}
AllNames == {"binance", "coinbase", "kraken"}

\* MarketDataCollector(config): lines 17-23
CollectorInit ==
    /\ cfgState = "built"
    /\ ~constructed
    /\ ~initRaised
    /\ LET tried == RangeOf(get_active_exchanges(cfg)) \cap exchange_classes IN
       \E outcome \in [tried -> InitOutcomes] :
          LET r == _initialize_exchanges(cfg, outcome) IN
          /\ exchanges' = r.live
          /\ initRaised' = r.raised
          /\ constructed' = ~r.raised
          /\ initOutcome' = [n \in AllNames |->
                               IF n \notin tried THEN "not_tried"
                               ELSE IF outcome[n] = "ok" THEN "ok" ELSE "failed"]
    /\ last_fetch_time' = [n \in AllNames |-> -1]
    /\ UNCHANGED <<cfgVars, now, pc, arg, todo, current_time, wake, seenLast,
                   callStart, callOutcome, netStart, netGap>>

----------------------------------------------------------------------------
(* src/data_collector.py: fetch_ohlcv *)

\* values of the exchange_name argument
NameArgs == {None, ""} \cup AllNames

\* outcomes of exchange.fetch_ohlcv(...) (line 96): a non-empty list, an empty
\* list, or an exception
FetchOutcomes == {"rows", "empty", "raise"}

Live(name) == name \in RangeOf(exchanges)

\* line 79
exchanges_to_use(exchange_name) ==
    IF Truthy(exchange_name) THEN <<exchange_name>> ELSE exchanges

\* line 92
MustWait(time_since_last) == time_since_last < MinInterval

\* line 93: the argument of time.sleep
SleepFor(time_since_last) == MinInterval - time_since_last

\* line 82 inverted: a name without a live client is not skipped
NoLiveClientNever(name) == FALSE

\* line 82
NoLiveClient(name) == ~Live(name)

\* lines 96-97: line 97 runs only when line 96 returned
Records(outcome) == outcome # "raise"

\* The except clause of the try on line 85 and the code after line 104 are not
\* part of the source: after a raise the call either goes on with the next
\* candidate or ends; after an empty result likewise.
AfterRaise == {"continue", "end"}
AfterEmpty == {"continue", "end"}

\* lines 88-97 as if they ran under a per-exchange lock: another thread is
\* between its throttle check and its write of last_fetch_time
ThrottleLockedElsewhere(t, name) ==
    \E u \in Threads \ {t} :
        /\ pc[u] \in {"check", "sleep", "ready", "incall", "record"}
        /\ todo[u] # <<>> /\ Head(todo[u]) = name

\* lines 88-97 take no lock: nothing keeps a thread from the throttle check
ThrottleBlocked(t, name) == FALSE

\* the locals of thread t once an iteration of the loop is over
EndIteration(t) ==
    /\ current_time' = [current_time EXCEPT ![t] = 0]
    /\ wake' = [wake EXCEPT ![t] = 0]
    /\ seenLast' = [seenLast EXCEPT ![t] = -1]
    /\ callStart' = [callStart EXCEPT ![t] = -1]
    /\ callOutcome' = [callOutcome EXCEPT ![t] = "none"]

\* the loop goes on with the next candidate, or the call ends
Proceed(t, next) ==
    IF next = "continue"
    THEN /\ pc' = [pc EXCEPT ![t] = "loop"]
         /\ todo' = [todo EXCEPT ![t] = Tail(todo[t])]
         /\ UNCHANGED arg
    ELSE /\ pc' = [pc EXCEPT ![t] = "idle"]
         /\ todo' = [todo EXCEPT ![t] = <<>>]
         /\ arg' = [arg EXCEPT ![t] = None]

netVars == <<netStart, netGap>>
localVars == <<current_time, wake, seenLast, callStart, callOutcome>>

\* fetch_ohlcv is entered: line 79
Call(t, exchange_name) ==
    /\ constructed
    /\ pc[t] = "idle"
    /\ pc' = [pc EXCEPT ![t] = "loop"]
    /\ arg' = [arg EXCEPT ![t] = exchange_name]
    /\ todo' = [todo EXCEPT ![t] = exchanges_to_use(exchange_name)]
    /\ UNCHANGED <<cfgVars, colVars, last_fetch_time, now, localVars, netVars>>

\* lines 81-89: next candidate; skip it without a live client, else read the clock
LoopStep(t) ==
    /\ pc[t] = "loop"
    /\ IF todo[t] = <<>>
       THEN /\ Proceed(t, "end")
            /\ UNCHANGED current_time
       ELSE IF NoLiveClient(Head(todo[t]))
            THEN /\ Proceed(t, "continue")
                 /\ UNCHANGED current_time
            ELSE /\ current_time' = [current_time EXCEPT ![t] = now]
                 /\ pc' = [pc EXCEPT ![t] = "check"]
                 /\ UNCHANGED <<todo, arg>>
    /\ UNCHANGED <<cfgVars, colVars, last_fetch_time, now, wake, seenLast, callStart,
                   callOutcome, netVars>>

\* lines 90-93: the throttle check
CheckRate(t) ==
    /\ pc[t] = "check"
    /\ LET name == Head(todo[t])
           last == last_fetch_time[name]
           time_since_last == current_time[t] - last
       IN /\ ~ThrottleBlocked(t, name)
          /\ seenLast' = [seenLast EXCEPT ![t] = last]
          /\ IF last # -1 /\ MustWait(time_since_last)
             THEN /\ wake' = [wake EXCEPT ![t] = now + SleepFor(time_since_last)]
                  /\ pc' = [pc EXCEPT ![t] = "sleep"]
             ELSE /\ pc' = [pc EXCEPT ![t] = "ready"]
                  /\ UNCHANGED wake
    /\ UNCHANGED <<cfgVars, colVars, last_fetch_time, now, arg, todo, current_time,
                   callStart, callOutcome, netVars>>

\* line 93: time.sleep returns once the requested time has passed
WakeUp(t) ==
    /\ pc[t] = "sleep"
    /\ now >= wake[t]
    /\ pc' = [pc EXCEPT ![t] = "ready"]
    /\ UNCHANGED <<cfgVars, colVars, last_fetch_time, now, arg, todo, localVars,
                   netVars>>

\* line 96: the underlying network call is issued
NetCall(t) ==
    /\ pc[t] = "ready"
    /\ LET name == Head(todo[t]) IN
       /\ netGap' = [netGap EXCEPT ![name] =
                         IF netStart[name] = -1 THEN -1
                         ELSE IF now - netStart[name] >= MinInterval THEN MinInterval
                         ELSE now - netStart[name]]
       /\ netStart' = [netStart EXCEPT ![name] = now]
    /\ callStart' = [callStart EXCEPT ![t] = now]
    /\ callOutcome' = [callOutcome EXCEPT ![t] = "pending"]
    /\ pc' = [pc EXCEPT ![t] = "incall"]
    /\ UNCHANGED <<cfgVars, colVars, last_fetch_time, now, arg, todo, current_time,
                   wake, seenLast>>

\* line 96: the underlying network call returns or raises
NetReturn(t, outcome) ==
    /\ pc[t] = "incall"
    /\ IF Records(outcome)
       THEN /\ pc' = [pc EXCEPT ![t] = "record"]
            /\ callOutcome' = [callOutcome EXCEPT ![t] = outcome]
            /\ UNCHANGED <<todo, arg, current_time, wake, seenLast, callStart>>
       ELSE /\ \E next \in AfterRaise : Proceed(t, next)
            /\ EndIteration(t)
    /\ UNCHANGED <<cfgVars, colVars, last_fetch_time, now, netVars>>

\* lines 97-104: record the fetch time, then shape a non-empty result
Record(t) ==
    /\ pc[t] = "record"
    /\ last_fetch_time' = [last_fetch_time EXCEPT ![Head(todo[t])] = now]
    /\ IF callOutcome[t] = "rows"
       THEN Proceed(t, "end")
       ELSE \E next \in AfterEmpty : Proceed(t, next)
    /\ EndIteration(t)
    /\ UNCHANGED <<cfgVars, colVars, now, netVars>>

\* the clock advances
Tick ==
    /\ constructed
    /\ now < MaxTime
    /\ now' = now + 1
    /\ UNCHANGED <<cfgVars, colVars, last_fetch_time, pc, arg, todo, localVars,
                   netVars>>

----------------------------------------------------------------------------
(* Specifications *)

EmptyEnviron == [v \in {} |-> EmptyText]

\* every os.environ over the variables vs: each unset, or set to one of its texts
RECURSIVE Environs(_)
Environs(vs) ==
    IF vs = {} THEN {EmptyEnviron}
    ELSE LET v == CHOOSE x \in vs : TRUE
             rest == Environs(vs \ {v})
         IN rest \cup {[u \in DOMAIN f \cup {v} |-> IF u = v THEN x ELSE f[u]] :
                          f \in rest, x \in EnvValues(v)}

FetchInit ==
    /\ last_fetch_time = [n \in AllNames |-> -1]
    /\ now = 0
    /\ pc = [t \in Threads |-> "idle"]
    /\ arg = [t \in Threads |-> None]
    /\ todo = [t \in Threads |-> <<>>]
    /\ current_time = [t \in Threads |-> 0]
    /\ wake = [t \in Threads |-> 0]
    /\ seenLast = [t \in Threads |-> -1]
    /\ callStart = [t \in Threads |-> -1]
    /\ callOutcome = [t \in Threads |-> "none"]
    /\ netStart = [n \in AllNames |-> -1]
    /\ netGap = [n \in AllNames |-> -1]

CollectorUnbuilt ==
    /\ constructed = FALSE
    /\ initRaised = FALSE
    /\ initOutcome = [n \in AllNames |-> "not_tried"]
    /\ exchanges = <<>>

\* the process environment before Config() runs
InitConfig ==
    /\ environ \in Environs(EnvVars)
    /\ cfgState = "unbuilt"
    /\ cfgError = "none"
    /\ cfg = NoConfig
    /\ warnings = <<>>
    /\ activeOut = <<None>>
    /\ CollectorUnbuilt
    /\ FetchInit

NextConfig ==
    \/ ConfigInit
    \/ GetActiveExchanges

SpecConfig == InitConfig /\ [][NextConfig]_vars

\* credentials a configured exchange may carry
Credentials == {EmptyText, Text("k")}

\* config objects handed to MarketDataCollector: the two exchanges of Config,
\* and possibly one more that exchange_classes does not know
CollectorConfigs ==
    {[environment |-> Text("development"), exchanges |-> exs, project_id |-> EmptyText] :
        exs \in
          {<<ExchangeConfig("binance", bk, bs), ExchangeConfig("coinbase", ck, cs)>> :
              bk \in Credentials, bs \in Credentials,
              ck \in Credentials, cs \in Credentials}
          \cup
          {<<ExchangeConfig("binance", bk, bs), ExchangeConfig("coinbase", ck, cs),
             ExchangeConfig("kraken", Text("k"), Text("k"))>> :
              bk \in Credentials, bs \in Credentials,
              ck \in Credentials, cs \in Credentials}}

Init ==
    /\ environ = EmptyEnviron
    /\ cfgState = "built"
    /\ cfgError = "none"
    /\ cfg \in CollectorConfigs
    /\ warnings = <<>>
    /\ activeOut = <<None>>
    /\ CollectorUnbuilt
    /\ FetchInit

\* the single sequential caller is the first thread
Caller == CHOOSE t \in Threads : \A u \in Threads : t <= u

Next ==
    \/ CollectorInit
    \/ Tick
    \/ \E n \in NameArgs : Call(Caller, n)
    \/ LoopStep(Caller)
    \/ CheckRate(Caller)
    \/ WakeUp(Caller)
    \/ NetCall(Caller)
    \/ \E o \in FetchOutcomes : NetReturn(Caller, o)
    \/ Record(Caller)

Spec == Init /\ [][Next]_vars

\* Two threads share one collector whose config holds credentials for Binance
\* only, and call fetch_ohlcv with no name or with "binance".
InitConc ==
    /\ Init
    /\ cfg.exchanges = <<ExchangeConfig("binance", Text("k"), Text("k")),
                         ExchangeConfig("coinbase", EmptyText, EmptyText)>>

ConcArgs == {None, "binance"}

NextConc ==
    \/ CollectorInit
    \/ Tick
    \/ \E t \in Threads :
        \/ \E n \in ConcArgs : Call(t, n)
        \/ LoopStep(t)
        \/ CheckRate(t)
        \/ WakeUp(t)
        \/ NetCall(t)
        \/ \E o \in FetchOutcomes : NetReturn(t, o)
        \/ Record(t)

SpecConc == InitConc /\ [][NextConc]_vars

----------------------------------------------------------------------------
(* Properties *)

EnvIs(name, text) == name \in DOMAIN environ /\ environ[name] = text
EnvUnsetOrEmpty(name) == name \notin DOMAIN environ \/ environ[name] = EmptyText
EnvNonEmpty(name) == name \in DOMAIN environ /\ environ[name] # EmptyText

\* names of the configured exchanges that carry both an api_key and an api_secret
BothCredentials ==
    {e.name : e \in {x \in RangeOf(cfg.exchanges) :
                        x.api_key # EmptyText /\ x.api_secret # EmptyText}}

LiveNames == RangeOf(exchanges)
FetchedNames == {n \in AllNames : last_fetch_time[n] # -1}

\* some thread is inside the underlying fetch of exchange n, or about to record it
InFlight(n) ==
    \E t \in Threads :
        pc[t] \in {"incall", "record"} /\ todo[t] # <<>> /\ Head(todo[t]) = n

\* C1: initialization never raises, and once it has finished every exchange
\* whose client construction or load_markets() check raised is absent from
\* self.exchanges.
C1_FailedExchangeAbsent ==
    /\ ~initRaised
    /\ constructed => \A n \in AllNames : initOutcome[n] = "failed" => n \notin LiveNames

\* C2: for a single sequential caller, two consecutive underlying fetches of the
\* same exchange start at least the minimum inter-request interval apart.
C2_MinimumSpacing ==
    \A n \in AllNames : netGap[n] # -1 => netGap[n] >= MinInterval

\* exactly two exchanges were tried by initialization and exactly one succeeded
TwoTriedOneOk ==
    /\ Cardinality({n \in AllNames : initOutcome[n] # "not_tried"}) = 2
    /\ Cardinality({n \in AllNames : initOutcome[n] = "ok"}) = 1

\* C3: with two active exchanges of which one initialized successfully, a
\* fetch_ohlcv call without an exchange name issues underlying fetches only to
\* the exchange that initialized successfully.
C3_NoNameFetchOnlySuccessful ==
    \A t \in Threads :
        (TwoTriedOneOk /\ pc[t] = "incall" /\ ~Truthy(arg[t]))
            => initOutcome[Head(todo[t])] = "ok"

\* C4: with ENVIRONMENT = "production" and FIREBASE_PROJECT_ID unset or empty,
\* Config() raises ValueError and produces no Config object, whatever the other
\* variables hold; when the numeric settings parse, the error is the Firebase
\* configuration error.
C4_ProductionWithoutFirebaseFails ==
    (cfgState # "unbuilt" /\ EnvIs("ENVIRONMENT", Text("production"))
        /\ EnvUnsetOrEmpty("FIREBASE_PROJECT_ID"))
    => /\ cfgState = "failed"
       /\ cfg = NoConfig
       /\ cfgError # "none"
       /\ NumericSettingsParse(environ) => cfgError = "Firebase configuration missing"

C4_Witness ==
    /\ cfgState = "failed"
    /\ cfgError = "Firebase configuration missing"
    /\ EnvIs("ENVIRONMENT", Text("production"))
    /\ "FIREBASE_PROJECT_ID" \notin DOMAIN environ
    /\ EnvIs("BINANCE_API_KEY", Text("k"))
    /\ EnvIs("WINDOW_SIZE", <<"5">>)

\* C5 as stated: with ENVIRONMENT = "production" and FIREBASE_PROJECT_ID
\* non-empty, Config() succeeds in every environment.
C5_ProductionWithFirebaseSucceeds ==
    (cfgState # "unbuilt" /\ EnvIs("ENVIRONMENT", Text("production"))
        /\ EnvNonEmpty("FIREBASE_PROJECT_ID"))
    => cfgState = "built"

\* C5 amended: with ENVIRONMENT = "production", FIREBASE_PROJECT_ID non-empty and
\* every numeric variable that is set holding a text int()/float() accepts,
\* Config() succeeds whether or not any exchange key or secret is present; a
\* missing Binance API key logs one warning and is not fatal.
C5_ProductionWithFirebaseAndNumbersSucceeds ==
    (cfgState # "unbuilt" /\ EnvIs("ENVIRONMENT", Text("production"))
        /\ EnvNonEmpty("FIREBASE_PROJECT_ID") /\ NumericSettingsParse(environ))
    => /\ cfgState = "built"
       /\ cfgError = "none"
       /\ cfg.project_id = environ["FIREBASE_PROJECT_ID"]
       /\ warnings = IF EnvUnsetOrEmpty("BINANCE_API_KEY")
                     THEN <<"Binance API key not configured">> ELSE <<>>

C5_Witness ==
    /\ cfgState = "built"
    /\ EnvIs("ENVIRONMENT", Text("production"))
    /\ EnvNonEmpty("FIREBASE_PROJECT_ID")
    /\ DOMAIN environ \cap {"BINANCE_API_KEY", "BINANCE_API_SECRET",
                            "COINBASE_API_KEY", "COINBASE_API_SECRET"} = {}
    /\ warnings = <<"Binance API key not configured">>

\* C6: get_active_exchanges returns exactly the configured names whose api_key
\* and api_secret are both non-empty, each once.
C6_ActiveExactlyBothCredentials ==
    activeOut # <<None>>
    => /\ RangeOf(activeOut) = BothCredentials
       /\ NoDuplicates(activeOut)

C6_Witness ==
    /\ activeOut = <<"coinbase">>
    /\ EnvIs("BINANCE_API_KEY", Text("k"))
    /\ EnvUnsetOrEmpty("BINANCE_API_SECRET")

\* C7: once an attempt that reached the underlying fetch of an exchange is over,
\* last_fetch_time of that exchange is no older than the start of that fetch,
\* whatever the fetch did.
C7_UpdatedAfterEveryAttempt ==
    \A n \in AllNames :
        (netStart[n] # -1 /\ ~InFlight(n)) => last_fetch_time[n] >= netStart[n]

\* C8: the throttle takes no lock: a thread that has read the clock is never
\* kept from running the throttle check, wherever the other threads are.  The
\* race this allows is C8_Witness.
C8_ThrottleNeverBlocks ==
    \A t \in Threads : pc[t] = "check" => ENABLED CheckRate(t)

\* both threads passed the throttle check against the same recorded
\* last_fetch_time and are inside underlying fetches of the same exchange that
\* started less than the minimum interval apart
C8_Witness ==
    /\ pc[1] = "incall" /\ pc[2] = "incall"
    /\ Head(todo[1]) = Head(todo[2])
    /\ seenLast[1] # -1 /\ seenLast[1] = seenLast[2]
    /\ callStart[1] - callStart[2] < MinInterval
    /\ callStart[2] - callStart[1] < MinInterval

\* thread t runs a call whose explicit exchange_name has no live client
SkippingCall(t) == pc[t] # "idle" /\ Truthy(arg[t]) /\ arg[t] \notin LiveNames

\* C9: a fetch_ohlcv call with an explicit exchange_name that has no live client
\* only skips: it never sleeps, never issues an underlying fetch, and leaves
\* last_fetch_time and self.exchanges unchanged.
C9_ExplicitDeadNameOnlySkips ==
    [][\A t \in Threads :
          (SkippingCall(t) \/ SkippingCall(t)')
            => /\ pc'[t] \in {"loop", "idle"}
               /\ last_fetch_time' = last_fetch_time
               /\ exchanges' = exchanges
               /\ netStart' = netStart]_vars

C9_Witness ==
    /\ pc[Caller] = "loop" /\ arg[Caller] = "coinbase" /\ todo[Caller] = <<>>
    /\ LiveNames = {"binance"}
    /\ last_fetch_time["binance"] # -1

\* C10: once the collector is constructed, fetch_ohlcv never changes
\* self.exchanges; its keys are active exchanges of the supported set
\* {binance, coinbase}; and the keys of last_fetch_time are keys of self.exchanges.
C10_LiveMappingInvariant ==
    [][/\ constructed => exchanges' = exchanges
       /\ constructed' =>
            /\ RangeOf(exchanges') \subseteq (BothCredentials' \cap {"binance", "coinbase"})
            /\ NoDuplicates(exchanges')
            /\ FetchedNames' \subseteq RangeOf(exchanges')]_vars

C10_Witness ==
    /\ constructed
    /\ LiveNames = {"coinbase"}
    /\ BothCredentials = {"coinbase", "kraken"}
    /\ exchangeNamed(cfg, "binance").api_key # EmptyText
    /\ FetchedNames = {"coinbase"}
    /\ pc[Caller] = "idle"

====
